---- MODULE Spec2Model ----
(***************************************************************************)
(* A model of the message queue of axiomate-cli                            *)
(* (source/services/ai/messageQueue.ts), of the application layer that     *)
(* drives it (source/app.tsx), and of the AI service with its tool-round   *)
(* loop, its Session and its tool call handler; of the vendor clients'     *)
(* chat with its retries, of the OpenAI adapter, of the tool selection of  *)
(* a turn and of the executor's parameter handling.                        *)
(*                                                                         *)
(* JavaScript runs one handler at a time: an action of this model is one   *)
(* run of a handler from the event that starts it to the point where every *)
(* activation it touched is suspended at an await or has returned.         *)
(***************************************************************************)
EXTENDS Integers, Sequences, FiniteSets, TLC

(***************************************************************************)
(* Bounds of the model.                                                    *)
(***************************************************************************)
MaxMsgs == 4          \* enqueue calls
MaxAppMsgs == 2       \* messages submitted to the application
MaxCompactCmds == 1   \* /compact commands
MaxServices == 2      \* AI service instances (1 + model switches)
MaxChats == 3         \* vendor calls made by one AI service
MaxCalls == 2         \* tool calls in one vendor response
MaxTokens == 1        \* estimated tokens of one user message
contextWindow == 5    \* config.contextWindow, in estimated tokens
maxToolCallRounds == 2 \* config.maxToolCallRounds

Ids == 1..MaxMsgs
Services == 1..MaxServices

VARIABLES
    \* ---- MessageQueue fields --------------------------------------------
    queue,        \* this.queue: ids of the messages not yet started
    processing,   \* this.processing
    stopped,      \* this.stopped
    idCounter,    \* this.idCounter
    processor,    \* this.processor: "any" (an arbitrary processor) or
                  \* "processMessage" (the one app.tsx constructs it with)
    \* ---- this.callbacks, as the calls made to them ----------------------
    fired,        \* the callbacks called by the handler that ran last, in order
    log,          \* every call of onMessageStart, onMessageComplete and
                  \* onMessageError so far, in order
    \* ---- activations of processNext suspended at the await --------------
    promise,      \* per message: state of the promise its processor returned
    \* ---- application (app.tsx) ------------------------------------------
    aiService,    \* aiServiceRef.current: the current AI service instance
    history,      \* per AI service: its Session's history (roles)
    rounds,       \* sendMessage calls that have not settled
    pm,           \* per message: position of its processMessage activation
    compactCmds,  \* number of /compact commands so far
    \* ---- what the callers observed (not read by the program) ------------
    op,           \* the handler that ran last: name, message, and the value
                  \* it returned (stop, enqueue), whether shouldCompact
                  \* reported true (build) or the round resolved (round)
    discarded,    \* messages that were waiting when stop() or clear() ran
    stoppedDuring, \* messages that were in flight when stop() was called
    \* ---- one AI service taken alone -------------------------------------
    session,      \* this.session: the history of its Session
    call,         \* the sendMessage activation: where it is suspended, the
                  \* local variables rounds and messages of chatWithTools
    chats,        \* number of client.chat calls so far
    svcOp,        \* the step that ran last: what it did in order, what
                  \* sendMessage returned if it returned, and whether it
                  \* is a compactWith that follows a compactWith
    \* ---- one call of the tool call handler taken alone ------------------
    toolCalls,    \* the argument of handleToolCalls
    handled,      \* what the call came to
    \* ---- one call of chat of a vendor client taken alone ----------------
    client,       \* the client: its config, the chat activation, the result
    \* ---- one call of a function taken alone -----------------------------
    applied       \* the function called, its argument, what it returned

appVars == <<queue, processing, stopped, idCounter, processor, fired, log,
             promise, aiService, history, rounds, pm, compactCmds, op,
             discarded, stoppedDuring>>

svcVars == <<session, call, chats, svcOp>>

handlerVars == <<toolCalls, handled>>

\* The variables of the parts that are looked at one call at a time.
restVars == <<client, applied>>

vars == <<appVars, svcVars, handlerVars, restVars>>

(***************************************************************************)
(* The program state as one record, so that a handler that calls other     *)
(* methods is the composition of their effects.                            *)
(***************************************************************************)
Cur ==
    [queue |-> queue, processing |-> processing, stopped |-> stopped,
     idCounter |-> idCounter, processor |-> processor, fired |-> <<>>,
     log |-> log, promise |-> promise, aiService |-> aiService,
     history |-> history, rounds |-> rounds, pm |-> pm]

Becomes(s) ==
    /\ queue' = s.queue
    /\ processing' = s.processing
    /\ stopped' = s.stopped
    /\ idCounter' = s.idCounter
    /\ processor' = s.processor
    /\ fired' = s.fired
    /\ log' = s.log
    /\ promise' = s.promise
    /\ aiService' = s.aiService
    /\ history' = s.history
    /\ rounds' = s.rounds
    /\ pm' = s.pm

\* One call of a callback of MessageQueueCallbacks.
Ev(cb, id, arg) == [cb |-> cb, id |-> id, arg |-> arg]

StreamCbs == {"onStreamStart", "onStreamChunk", "onStreamEnd"}
ResultCbs == {"onMessageComplete", "onMessageError"}
LifeCbs == {"onMessageStart"} \cup ResultCbs

Fire(s, e) ==
    [s EXCEPT !.fired = Append(@, e),
              !.log = IF e.cb \in LifeCbs THEN Append(@, e) ELSE @]

\* The messages whose processor has been invoked and has not settled.
InFlight(s) == {m \in Ids : s.promise[m] = "pending"}

(***************************************************************************)
(* Session (history only).  realMessageCount excludes the summary turn a   *)
(* compaction leaves behind.                                               *)
(***************************************************************************)
RECURSIVE RealMessageCount(_)
RealMessageCount(h) ==
    IF h = <<>> THEN 0
    ELSE (IF Head(h) = "summary" THEN 0 ELSE 1) + RealMessageCount(Tail(h))

addMessage(s, svc, role) == [s EXCEPT !.history[svc] = Append(@, role)]

compactWith(s, svc) == [s EXCEPT !.history[svc] = <<"summary">>]

clearHistory(s, svc) == [s EXCEPT !.history[svc] = <<>>]

(***************************************************************************)
(* AIService.sendMessage up to its first await: the user turn is appended  *)
(* and the round is in flight.  A round is named by who awaits it: the     *)
(* processMessage of a message ("msg"), the compact() it awaits ("auto")   *)
(* or a /compact command ("cmd").  The vendor calls and tool rounds inside *)
(* one sendMessage are one step here: it settles once, either way.         *)
(***************************************************************************)
Round(kind, of, svc) == [kind |-> kind, of |-> of, svc |-> svc]

sendMessage(s, kind, of, svc) ==
    [addMessage(s, svc, "user") EXCEPT !.rounds = @ \cup {Round(kind, of, svc)}]

(***************************************************************************)
(* app.tsx compact() up to its first await.  It reads aiServiceRef.current *)
(* itself, and returns at once when there is too little to compact.        *)
(***************************************************************************)
CompactReturnsEarly(s) == RealMessageCount(s.history[s.aiService]) < 2

compact(s, kind, of) ==
    IF CompactReturnsEarly(s) THEN s
    ELSE sendMessage(s, kind, of, s.aiService)

\* compact() after its sendMessage settled: the summary replaces the history
\* of the service it was asked of; an error is reported and swallowed.
compactResume(s, svc, ok) == IF ok THEN compactWith(s, svc) ELSE s

\* AIService.sendMessage when its round r settles: the assistant turn is
\* appended when the vendor answered, nothing when the call rejected.
sendMessageSettle(s, r, ok) ==
    LET s1 == [s EXCEPT !.rounds = @ \ {r}]
    IN  IF ok THEN addMessage(s1, r.svc, "assistant") ELSE s1

(***************************************************************************)
(* app.tsx processMessage.                                                 *)
(***************************************************************************)
\* Up to the await of buildMessageContent.
processMessage(s, m) ==
    [s EXCEPT !.promise[m] = "pending",
              !.pm[m] = [pc |-> "build", svc |-> s.aiService]]

\* The final sendMessage, on the service read when the activation began.
processMessageSend(s, m) ==
    [sendMessage(s, "msg", m, s.pm[m].svc) EXCEPT !.pm[m].pc = "send"]

\* After buildMessageContent resolved; should is shouldCompact's verdict on
\* the projected usage.  compact() is awaited when it is called for.
processMessageBuilt(s, m, should) ==
    IF should
    THEN LET s1 == compact(s, "auto", m)
         IN  IF s1.rounds = s.rounds
             THEN processMessageSend(s1, m)
             ELSE [s1 EXCEPT !.pm[m].pc = "compact"]
    ELSE processMessageSend(s, m)

(***************************************************************************)
(* MessageQueue.processNext.                                               *)
(***************************************************************************)
\* this.processor(message, streamCallbacks)
callProcessor(s, m) ==
    IF s.processor = "processMessage"
    THEN processMessage(s, m)
    ELSE [s EXCEPT !.promise[m] = "pending"]

\* The condition of the early return.
CannotStart(s) == s.processing \/ s.queue = <<>> \/ s.stopped

\* Variant: the test of processing inverted.
QueueEmptyCond_Never(s) == s.queue = <<>> /\ s.processing /\ ~s.stopped

\* The condition under which the early return reports an empty queue.
QueueEmptyCond(s) == s.queue = <<>> /\ ~s.processing /\ ~s.stopped

\* Variant: pop() in place of shift().
shift_pop(q) == [message |-> q[Len(q)], rest |-> SubSeq(q, 1, Len(q) - 1)]

\* Variant: queue[0] read without removing it.
shift_peek(q) == [message |-> Head(q), rest |-> q]

\* Array.prototype.shift: the first element, and the array without it.
shift(q) == [message |-> Head(q), rest |-> Tail(q)]

\* Variant: processing is not set.
StartMessage_NoFlag(s) ==
    LET sh == shift(s.queue)
    IN  Fire([s EXCEPT !.queue = sh.rest], Ev("onMessageStart", sh.message, 0))

\* processing = true; message = queue.shift(); onMessageStart(message.id)
StartMessage(s) ==
    LET sh == shift(s.queue)
    IN  Fire([s EXCEPT !.processing = TRUE, !.queue = sh.rest],
             Ev("onMessageStart", sh.message, 0))

\* From the call to the await of the processor's promise.
processNext(s) ==
    IF CannotStart(s)
    THEN IF QueueEmptyCond(s) THEN Fire(s, Ev("onQueueEmpty", 0, 0)) ELSE s
    ELSE callProcessor(StartMessage(s), shift(s.queue).message)

\* Variant: the error callback also runs after the result callback.
SettleCallback_Both(s, m, outcome) ==
    IF s.stopped THEN s
    ELSE IF outcome = "resolved"
         THEN Fire(Fire(s, Ev("onMessageComplete", m, 0)),
                   Ev("onMessageError", m, 0))
         ELSE Fire(s, Ev("onMessageError", m, 0))

\* The try/catch around the await: the result or error callback.
SettleCallback(s, m, outcome) ==
    IF s.stopped THEN s
    ELSE IF outcome = "resolved"
         THEN Fire(s, Ev("onMessageComplete", m, 0))
         ELSE Fire(s, Ev("onMessageError", m, 0))

\* Variant: the queue is not continued.
Finally_NoNext(s) == [s EXCEPT !.processing = FALSE]

\* The finally block.
Finally(s) ==
    LET s1 == [s EXCEPT !.processing = FALSE]
    IN  IF ~s1.stopped THEN processNext(s1) ELSE s1

\* From the settling of the processor's promise of m to the end.
afterAwait(s, m, outcome) ==
    Finally(SettleCallback([s EXCEPT !.promise[m] = outcome], m, outcome))

(***************************************************************************)
(* MessageQueue.enqueue, stop, clear.                                      *)
(***************************************************************************)
\* Variant: stopped is not reset.
enqueue_KeepStopped(s) ==
    LET id == s.idCounter + 1
        s1 == [s EXCEPT !.idCounter = id, !.queue = Append(@, id)]
    IN  IF ~s1.processing THEN processNext(s1) ELSE s1

enqueue(s) ==
    LET id == s.idCounter + 1
        s1 == [s EXCEPT !.stopped = FALSE, !.idCounter = id,
                        !.queue = Append(@, id)]
    IN  IF ~s1.processing THEN processNext(s1) ELSE s1

\* Variant: the queue is not emptied.
stop_NoClear(s) ==
    Fire([s EXCEPT !.stopped = TRUE], Ev("onStopped", 0, Len(s.queue)))

\* Variant: stop() also restarts the id counter.
stop_ResetCounter(s) ==
    Fire([s EXCEPT !.stopped = TRUE, !.queue = <<>>, !.idCounter = 0],
         Ev("onStopped", 0, Len(s.queue)))

\* Variant: the rounds in flight are abandoned.
stop_Abort(s) ==
    Fire([s EXCEPT !.stopped = TRUE, !.queue = <<>>, !.rounds = {}],
         Ev("onStopped", 0, Len(s.queue)))

stop(s) ==
    Fire([s EXCEPT !.stopped = TRUE, !.queue = <<>>],
         Ev("onStopped", 0, Len(s.queue)))

stopReturn(s) == Len(s.queue)

\* The counter component of the id enqueue returns.
enqueueReturn(s) == s.idCounter + 1

\* Variant: clear() also stops the queue.
clear_Stop(s) == [s EXCEPT !.queue = <<>>, !.stopped = TRUE]

clear(s) == [s EXCEPT !.queue = <<>>]

\* A streaming callback handed to the processor of m: forwarded unless stopped.
streamCallback(s, m, cb) ==
    IF ~s.stopped THEN Fire(s, Ev(cb, m, 0)) ELSE s

Range(f) == {f[i] : i \in DOMAIN f}

Op(name, m, val) == [name |-> name, m |-> m, val |-> val]

(***************************************************************************)
(* Chat messages, as far as the program looks at them: role, content, the  *)
(* tool calls of an assistant message, the call a tool message answers.    *)
(* A tool call id is a number, 0 standing for the empty string and -1 for  *)
(* a message that has none; tk is the token estimate of the content.       *)
(***************************************************************************)
Message(role, content, calls, id, tk) ==
    [role |-> role, content |-> content, tool_calls |-> calls,
     tool_call_id |-> id, tk |-> tk]

\* What function.name and function.arguments of a call come to in the
\* handler: a known action with valid arguments, or one of the failures.
FnKinds == {"ok", "noTool", "noAction", "notInstalled", "badParams",
            "badJson", "execError"}

ToolCall(id, fn) == [id |-> id, fn |-> fn]

(***************************************************************************)
(* ToolCallHandler.handleToolCalls and executeToolAction.                  *)
(***************************************************************************)
\* The ExecutionResult of executeToolAction.
executeToolAction(fn) ==
    CASE fn = "notInstalled" ->
           [success |-> FALSE, stdout |-> "", error |-> "not installed"]
      [] fn = "badParams" ->
           [success |-> FALSE, stdout |-> "", error |-> "validation failed"]
      [] fn = "execError" ->
           [success |-> FALSE, stdout |-> "", error |-> "exit code"]
      [] OTHER ->
           [success |-> TRUE, stdout |-> "stdout", error |-> ""]

toolMessage(id, content) == Message("tool", content, <<>>, id, 1)

\* The body of the loop for one call that does not throw: what it pushes.
handleCall(c) ==
    CASE c.fn = "noTool" -> <<toolMessage(c.id, "Error: Tool not found")>>
      [] c.fn = "noAction" -> <<toolMessage(c.id, "Error: Action not found")>>
      [] OTHER ->
           LET result == executeToolAction(c.fn)
           IN  <<toolMessage(c.id, IF result.success THEN result.stdout
                                   ELSE "Error: " \o result.error)>>

\* JSON.parse(call.function.arguments) throws; it is reached only for a
\* known tool and action.
parseThrows(c) == c.fn = "badJson"

\* The loop from the calls left and the results so far.  A throw inside the
\* async method rejects its promise and the results are lost.
RECURSIVE handleLoop(_, _)
handleLoop(calls, results) ==
    IF calls = <<>> THEN [rejected |-> FALSE, results |-> results]
    ELSE IF parseThrows(Head(calls))
         THEN [rejected |-> TRUE, results |-> <<>>]
         ELSE handleLoop(Tail(calls), results \o handleCall(Head(calls)))

handleToolCalls(calls) == handleLoop(calls, <<>>)

(***************************************************************************)
(* Session: token accounting over the history.                             *)
(***************************************************************************)
RECURSIVE SumTokens(_)
SumTokens(h) == IF h = <<>> THEN 0 ELSE Head(h).tk + SumTokens(Tail(h))

getAvailableTokens(h) ==
    IF contextWindow - SumTokens(h) > 0 THEN contextWindow - SumTokens(h) ELSE 0

canAccommodate(h, t) == SumTokens(h) + t <= contextWindow

\* Drops the oldest messages until t more tokens fit or one message is left.
RECURSIVE ensureSpace(_, _)
ensureSpace(h, t) ==
    IF canAccommodate(h, t) \/ Len(h) <= 1 THEN h ELSE ensureSpace(Tail(h), t)

addUserMessage(h, tk) == Append(h, Message("user", "text", <<>>, -1, tk))

addAssistantMessage(h, msg) == Append(h, msg)

addToolMessage(h, msg) == Append(h, msg)

SessionCompactWith(h, summary) == <<Message("assistant", summary, <<>>, -1, 1)>>

SessionClear(h) == <<>>

(***************************************************************************)
(* The AI service taken alone, as one record: its Session's history, the   *)
(* sendMessage activation, and what the running step did so far.           *)
(***************************************************************************)
Idle == [pc |-> "idle", rounds |-> 0, messages |-> <<>>, tools |-> FALSE]

NotReturned == [state |-> "none", value |-> ""]

SvcCur ==
    [session |-> session, call |-> call, chats |-> chats, trace |-> <<>>,
     ret |-> NotReturned]

SvcBecomes(v, name) ==
    /\ session' = v.session
    /\ call' = v.call
    /\ chats' = v.chats
    /\ svcOp' = [name |-> name, trace |-> v.trace, ret |-> v.ret,
                 repeat |-> name = "compactWith" /\ svcOp.name = "compactWith"]

Did(v, e, arg) == [v EXCEPT !.trace = Append(@, [e |-> e, arg |-> arg])]

\* The text chatWithTools returns when the rounds are used up.
MaxRoundsMessage == "max tool call rounds reached"

\* sendMessage resolves with content / rejects.
returns(v, content) ==
    Did([v EXCEPT !.call = Idle,
                  !.ret = [state |-> "resolved", value |-> content]],
        "return", content)

\* Variant: the last message of the history is taken back.
throws_Rollback(v, err) ==
    Did([v EXCEPT !.call = Idle,
                  !.session = SubSeq(@, 1, Len(@) - 1),
                  !.ret = [state |-> "rejected", value |-> err]],
        "throw", err)

\* No await of sendMessage is inside a try: what an awaited call rejects
\* with is what sendMessage rejects with.
throws(v, err) ==
    Did([v EXCEPT !.call = Idle, !.ret = [state |-> "rejected", value |-> err]],
        "throw", err)

\* await this.client.chat(messages, tools)
clientChat(v) ==
    Did([v EXCEPT !.call.pc = "chat", !.chats = @ + 1], "chat", v.call.messages)

\* this.session.addAssistantMessage(msg) / addToolMessage(msg)
sessionAdd(v, msg) ==
    Did([v EXCEPT !.session = IF msg.role = "tool" THEN addToolMessage(@, msg)
                              ELSE addAssistantMessage(@, msg)],
        "append", msg)

\* messages.push(msg)
messagesPush(v, msg) == [v EXCEPT !.call.messages = Append(@, msg)]

\* Variant: the loop also runs when rounds equals the limit.
WhileCond_Le(r) == r <= maxToolCallRounds

\* while (rounds < this.maxToolCallRounds)
WhileCond(r) == r < maxToolCallRounds

\* The top of the loop: the next vendor call, or the exit after the loop.
chatLoop(v) ==
    IF WhileCond(v.call.rounds) THEN clientChat(v)
    ELSE returns(v, MaxRoundsMessage)

chatWithTools(v) ==
    chatLoop([v EXCEPT !.call = [pc |-> "start", rounds |-> 0,
                                 messages |-> v.session, tools |-> TRUE]])

directChat(v) ==
    clientChat([v EXCEPT !.call = [pc |-> "start", rounds |-> 0,
                                   messages |-> v.session, tools |-> FALSE]])

\* hasTools: the tools selected for the message are not empty.
contextAwareChat(v, hasTools) ==
    IF hasTools THEN chatWithTools(v) ELSE directChat(v)

svcSendMessage(v, tk, hasTools) ==
    LET h == addUserMessage(v.session, tk)
    IN  contextAwareChat(Did([v EXCEPT !.session = h], "append", h[Len(h)]),
                         hasTools)

svcSendMessageWithStatus(v, tk, hasTools) ==
    svcSendMessage(IF ~canAccommodate(v.session, tk)
                   THEN [v EXCEPT !.session = ensureSpace(@, tk)]
                   ELSE v,
                   tk, hasTools)

\* Variant: the summary is appended to the history.
svcCompactWith_Append(v, summary) ==
    Did([v EXCEPT !.session = Append(@, SessionCompactWith(@, summary)[1])],
        "compactWith", summary)

\* AIService.compactWith(summary): this.session.compactWith(summary)
svcCompactWith(v, summary) ==
    Did([v EXCEPT !.session = SessionCompactWith(@, summary)],
        "compactWith", summary)

\* AIService.clearHistory(): this.session.clear()
svcClearHistory(v) == [v EXCEPT !.session = SessionClear(@)]

\* OpenAIClient.parseResponse: the finish_reason of the AIResponse.
parseFinishReason(raw) ==
    IF raw \in {"stop", "tool_calls", "length"} THEN raw ELSE "stop"

parseResponse(raw) ==
    [finish_reason |-> parseFinishReason(raw.finish_reason),
     message |-> Message("assistant", raw.content, raw.tool_calls, -1, 1)]

\* The test that sends a response to the tool round.
IsToolRound(resp) ==
    resp.finish_reason = "tool_calls" /\ Len(resp.message.tool_calls) > 0

RECURSIVE appendResults(_, _)
RECURSIVE appendResults_Reversed(_, _)
\* Variant: the results are appended last first.
appendResults_Reversed(v, results) ==
    IF results = <<>> THEN v
    ELSE LET r == results[Len(results)]
         IN  appendResults_Reversed(messagesPush(sessionAdd(v, r), r),
                                    SubSeq(results, 1, Len(results) - 1))

\* for (const result of toolResults) { addToolMessage; messages.push }
appendResults(v, results) ==
    IF results = <<>> THEN v
    ELSE appendResults(messagesPush(sessionAdd(v, Head(results)), Head(results)),
                       Tail(results))

\* chatWithTools from the vendor's answer to the next await or the return.
afterChat(v, resp) ==
    IF IsToolRound(resp)
    THEN Did([messagesPush(sessionAdd(v, resp.message), resp.message)
                 EXCEPT !.call.pc = "tools"],
             "handleToolCalls", resp.message.tool_calls)
    ELSE returns(sessionAdd(v, resp.message), resp.message.content)

\* chatWithTools from the handler's results to the next await or the return.
afterTools(v, results) ==
    chatLoop([appendResults(v, results) EXCEPT !.call.rounds = @ + 1])

\* directChat from the vendor's answer to the return.
afterDirectChat(v, resp) ==
    returns(sessionAdd(v, resp.message), resp.message.content)

(***************************************************************************)
(* Initial state: a MessageQueue just constructed, and an application     *)
(* whose AI service is configured and has an empty Session.                *)
(***************************************************************************)
InitCommon ==
    /\ queue = <<>>
    /\ processing = FALSE
    /\ stopped = FALSE
    /\ idCounter = 0
    /\ fired = <<>>
    /\ log = <<>>
    /\ promise = [m \in Ids |-> "none"]
    /\ aiService = 1
    /\ history = [v \in Services |-> <<>>]
    /\ rounds = {}
    /\ pm = [m \in Ids |-> [pc |-> "none", svc |-> 0]]
    /\ compactCmds = 0
    /\ op = Op("none", 0, 0)
    /\ discarded = {}
    /\ stoppedDuring = {}
    /\ session = <<>>
    /\ call = Idle
    /\ chats = 0
    /\ svcOp = [name |-> "none", trace |-> <<>>, ret |-> NotReturned,
                repeat |-> FALSE]

\* handleToolCalls has not been called.
NotCalled == [called |-> FALSE, rejected |-> FALSE, results |-> <<>>]

\* No client and no function is looked at.
RestUnused == client = "none" /\ applied = "none"

Init ==
    /\ InitCommon
    /\ processor = "any"
    /\ toolCalls = <<>>
    /\ handled = NotCalled
    /\ RestUnused

AppInit ==
    /\ InitCommon
    /\ processor = "processMessage"
    /\ toolCalls = <<>>
    /\ handled = NotCalled
    /\ RestUnused

(***************************************************************************)
(* Operations on the queue.                                                *)
(***************************************************************************)
Enqueue ==
    /\ idCounter < MaxMsgs
    /\ Becomes(enqueue(Cur))
    /\ op' = Op("enqueue", idCounter + 1, enqueueReturn(Cur))
    /\ UNCHANGED <<discarded, stoppedDuring, compactCmds,
                 svcVars, handlerVars, restVars>>

Stop ==
    /\ Becomes(stop(Cur))
    /\ op' = Op("stop", 0, stopReturn(Cur))
    /\ discarded' = discarded \cup Range(queue)
    /\ stoppedDuring' = stoppedDuring \cup InFlight(Cur)
    /\ UNCHANGED <<compactCmds, svcVars, handlerVars, restVars>>

Clear ==
    /\ Becomes(clear(Cur))
    /\ op' = Op("clear", 0, 0)
    /\ discarded' = discarded \cup Range(queue)
    /\ UNCHANGED <<stoppedDuring, compactCmds, svcVars, handlerVars, restVars>>

\* An arbitrary processor calls one of its streaming callbacks.
Stream(m, cb) ==
    /\ processor = "any"
    /\ promise[m] = "pending"
    /\ Becomes(streamCallback(Cur, m, cb))
    /\ op' = Op(cb, m, 0)
    /\ UNCHANGED <<discarded, stoppedDuring, compactCmds,
                 svcVars, handlerVars, restVars>>

\* The promise of an arbitrary processor settles.
Settle(m, outcome) ==
    /\ processor = "any"
    /\ promise[m] = "pending"
    /\ Becomes(afterAwait(Cur, m, outcome))
    /\ op' = Op("settle", m, 0)
    /\ UNCHANGED <<discarded, stoppedDuring, compactCmds,
                 svcVars, handlerVars, restVars>>

SettleAny == \E m \in Ids, o \in {"resolved", "rejected"} : Settle(m, o)

(***************************************************************************)
(* The application: user actions and the settling of what it awaits.       *)
(***************************************************************************)
\* handleSubmit of a message: sendToAI enqueues it.
SubmitMessage == idCounter < MaxAppMsgs /\ Enqueue

\* /stop
StopProcessing == Stop

\* buildMessageContent settles for the message being processed.
BuildDone(m, ok, should) ==
    /\ processor = "processMessage"
    /\ pm[m].pc = "build"
    /\ promise[m] = "pending"
    /\ Becomes(IF ok
               THEN processMessageBuilt(Cur, m, should)
               ELSE afterAwait([Cur EXCEPT !.pm[m].pc = "done"], m, "rejected"))
    /\ op' = Op("build", m, IF ok /\ should THEN 1 ELSE 0)
    /\ UNCHANGED <<discarded, stoppedDuring, compactCmds,
                 svcVars, handlerVars, restVars>>

\* A sendMessage round settles, and whoever awaited it goes on.
RoundSettle(r, ok) ==
    /\ r \in rounds
    /\ LET s1 == sendMessageSettle(Cur, r, ok)
       IN  Becomes(
             CASE r.kind = "msg" ->
                    afterAwait([s1 EXCEPT !.pm[r.of].pc = "done"], r.of,
                               IF ok THEN "resolved" ELSE "rejected")
               [] r.kind = "auto" ->
                    processMessageSend(compactResume(s1, r.svc, ok), r.of)
               [] r.kind = "cmd" ->
                    compactResume(s1, r.svc, ok))
    /\ op' = Op("round", IF r.kind = "cmd" THEN 0 ELSE r.of,
                 IF ok THEN 1 ELSE 0)
    /\ UNCHANGED <<discarded, stoppedDuring, compactCmds,
                 svcVars, handlerVars, restVars>>

\* /compact
CmdCompact ==
    /\ compactCmds < MaxCompactCmds
    /\ Becomes(compact(Cur, "cmd", compactCmds + 1))
    /\ compactCmds' = compactCmds + 1
    /\ op' = Op("compact", 0, 0)
    /\ UNCHANGED <<discarded, stoppedDuring, svcVars, handlerVars, restVars>>

\* /new
CmdNewSession ==
    /\ Becomes(clearHistory(Cur, aiService))
    /\ op' = Op("new", 0, 0)
    /\ UNCHANGED <<discarded, stoppedDuring, compactCmds,
                 svcVars, handlerVars, restVars>>

\* /model: setConfig("model", ...) creates a new AI service.
CmdModel ==
    /\ aiService < MaxServices
    /\ Becomes([Cur EXCEPT !.aiService = @ + 1])
    /\ op' = Op("model", 0, 0)
    /\ UNCHANGED <<discarded, stoppedDuring, compactCmds,
                 svcVars, handlerVars, restVars>>

AppNext ==
    \/ SubmitMessage
    \/ StopProcessing
    \/ \E m \in Ids, ok \in BOOLEAN, should \in BOOLEAN : BuildDone(m, ok, should)
    \/ \E r \in rounds, ok \in BOOLEAN : RoundSettle(r, ok)
    \/ CmdCompact
    \/ CmdNewSession
    \/ CmdModel

AppSpec == AppInit /\ [][AppNext]_vars

Next ==
    \/ Enqueue
    \/ Stop
    \/ Clear
    \/ \E m \in Ids, cb \in StreamCbs : Stream(m, cb)
    \/ SettleAny

Spec == Init /\ [][Next]_vars

\* Every processor invocation eventually settles.
LiveSpec == Spec /\ WF_vars(SettleAny)

(***************************************************************************)
(* The AI service taken alone: its callers make one sendMessage at a time, *)
(* the vendor and the tool call handler answer.                            *)
(***************************************************************************)
\* The finish_reason values of the wire, one of them unknown to the client.
RawFinishReasons == {"stop", "tool_calls", "length", "content_filter"}

Contents == {"x", "y"}

\* n tool calls with ids not used before in the messages sent.
callList(k, n, fn) == [i \in 1..n |-> ToolCall(k * (MaxCalls + 1) + i, fn)]

\* What the vendor may answer to a request of k messages.
RawResponses(k) ==
    {[finish_reason |-> fr, content |-> c, tool_calls |-> <<>>] :
        fr \in RawFinishReasons, c \in Contents}
    \cup
    {[finish_reason |-> fr, content |-> "", tool_calls |-> callList(k, n, fn)] :
        fr \in RawFinishReasons, n \in 1..MaxCalls, fn \in {"ok", "badJson"}}

SendMessage(tk, hasTools, withStatus) ==
    /\ call.pc = "idle"
    /\ chats < MaxChats
    /\ SvcBecomes(IF withStatus
                  THEN svcSendMessageWithStatus(SvcCur, tk, hasTools)
                  ELSE svcSendMessage(SvcCur, tk, hasTools),
                  IF withStatus THEN "sendMessageWithStatus" ELSE "sendMessage")
    /\ UNCHANGED <<appVars, handlerVars, restVars>>

\* client.chat resolves.  The vendor answers with tool calls only when tools
\* were offered, and a response that leads to one more vendor call is given
\* only while vendor calls are left.
ChatSettle(raw) ==
    /\ call.pc = "chat"
    /\ ~call.tools => raw.tool_calls = <<>>
    /\ LET resp == parseResponse(raw)
       IN  /\ (call.tools /\ IsToolRound(resp)) =>
                  (chats < MaxChats \/ call.rounds + 1 >= maxToolCallRounds)
           /\ SvcBecomes(IF call.tools
                         THEN afterChat(Did(SvcCur, "response", resp), resp)
                         ELSE afterDirectChat(Did(SvcCur, "response", resp), resp),
                         "chat")
    /\ UNCHANGED <<appVars, handlerVars, restVars>>

\* client.chat rejects.
ChatReject(err) ==
    /\ call.pc = "chat"
    /\ SvcBecomes(throws(Did(SvcCur, "reject", err), err), "chat")
    /\ UNCHANGED <<appVars, handlerVars, restVars>>

\* handleToolCalls settles for the calls of the last response.
ToolsSettle ==
    /\ call.pc = "tools"
    /\ LET outcome ==
              handleToolCalls(call.messages[Len(call.messages)].tool_calls)
       IN  SvcBecomes(IF outcome.rejected THEN throws(SvcCur, "SyntaxError")
                      ELSE afterTools(SvcCur, outcome.results),
                      "tools")
    /\ UNCHANGED <<appVars, handlerVars, restVars>>

CompactWith(summary) ==
    /\ call.pc = "idle"
    /\ SvcBecomes(svcCompactWith(SvcCur, summary), "compactWith")
    /\ UNCHANGED <<appVars, handlerVars, restVars>>

ClearHistory ==
    /\ call.pc = "idle"
    /\ SvcBecomes(svcClearHistory(SvcCur), "clearHistory")
    /\ UNCHANGED <<appVars, handlerVars, restVars>>

SvcNext ==
    \/ \E tk \in 1..MaxTokens, hasTools \in BOOLEAN, withStatus \in BOOLEAN :
          SendMessage(tk, hasTools, withStatus)
    \/ \E raw \in RawResponses(Len(call.messages)) : ChatSettle(raw)
    \/ \E err \in {"AbortError", "OpenAI API error: 500"} : ChatReject(err)
    \/ ToolsSettle
    \/ \E summary \in Contents : CompactWith(summary)
    \/ ClearHistory

SvcSpec == Init /\ [][SvcNext]_vars

(***************************************************************************)
(* The AI service with callers that do not wait for the turn to end: while *)
(* sendMessage is suspended at an await, newSession calls clearHistory and *)
(* compact() calls compactWith (app.tsx does not hold them back).          *)
(***************************************************************************)
ClearHistoryMidTurn ==
    /\ call.pc # "idle"
    /\ SvcBecomes(svcClearHistory(SvcCur), "clearHistory")
    /\ UNCHANGED <<appVars, handlerVars, restVars>>

CompactWithMidTurn(summary) ==
    /\ call.pc # "idle"
    /\ SvcBecomes(svcCompactWith(SvcCur, summary), "compactWith")
    /\ UNCHANGED <<appVars, handlerVars, restVars>>

MidTurnNext ==
    \/ SvcNext
    \/ ClearHistoryMidTurn
    \/ \E summary \in Contents : CompactWithMidTurn(summary)

MidTurnSpec == Init /\ [][MidTurnNext]_vars

(***************************************************************************)
(* The tool call handler taken alone, on every list of calls.              *)
(***************************************************************************)
ToolCalls == {ToolCall(id, fn) : id \in 0..MaxCalls, fn \in FnKinds}

ToolCallLists == UNION {[1..n -> ToolCalls] : n \in 0..MaxCalls}

HandlerInit ==
    /\ InitCommon
    /\ processor = "any"
    /\ toolCalls \in ToolCallLists
    /\ handled = NotCalled
    /\ RestUnused

HandleToolCalls ==
    /\ ~handled.called
    /\ LET outcome == handleToolCalls(toolCalls)
       IN  handled' = [called |-> TRUE, rejected |-> outcome.rejected,
                       results |-> outcome.results]
    /\ UNCHANGED <<toolCalls, appVars, svcVars, restVars>>

HandlerNext == HandleToolCalls

HandlerSpec == HandlerInit /\ [][HandlerNext]_vars

(***************************************************************************)
(* The vendor clients (OpenAIClient, AnthropicClient): chat with its retry *)
(* loop, and parseResponse on the body of the vendor's answer.  The client *)
(* is one record: its config, the chat activation (where it is suspended,  *)
(* attempt and lastError, the POSTs issued and the backoff delays waited,   *)
(* what the last fetch came to) and what chat's promise settled with.      *)
(***************************************************************************)
MaxConfigRetries == 3  \* largest config.maxRetries looked at

\* The default of `this.config.maxRetries || 3`.
DefaultMaxRetries == 3

\* An Error: its name and the parts its message is put together from.
Err(name, text, status, statusText, body) ==
    [name |-> name, text |-> text, status |-> status,
     statusText |-> statusText, body |-> body]

\* let lastError: Error | null = null
NoError == Err("", "", 0, "", "")

NoResponse ==
    [finish_reason |-> "", message |-> Message("assistant", "", <<>>, -1, 0)]

\* A tool call of an AIResponse.
FunctionCall(id, name, arguments) ==
    [id |-> id, type |-> "function",
     function |-> [name |-> name, arguments |-> arguments]]

\* Variant: the entries are not filtered by type.
parseOpenAIToolCalls_NoFilter(tcs) ==
    [i \in 1..Len(tcs) |->
        FunctionCall(tcs[i].id, tcs[i].function.name,
                     tcs[i].function.arguments)]

\* toolCalls.filter((tc) => tc.type === "function").map(...)
parseOpenAIToolCalls(tcs) ==
    LET f(tc) == tc.type = "function"
        kept == SelectSeq(tcs, f)
    IN  [i \in 1..Len(kept) |->
            FunctionCall(kept[i].id, kept[i].function.name,
                         kept[i].function.arguments)]

\* parseAnthropicToolUse: one tool call per tool_use block, in order, the
\* input serialised by JSON.stringify.
parseAnthropicToolUse(blocks) ==
    LET f(b) == b.type = "tool_use"
        kept == SelectSeq(blocks, f)
    IN  [i \in 1..Len(kept) |->
            FunctionCall(kept[i].id, kept[i].name, kept[i].input)]

\* content is a string or null on the wire.
Null == "<null>"

Parsed(resp) == [threw |-> FALSE, error |-> NoError, response |-> resp]

Threw(err) == [threw |-> TRUE, error |-> err, response |-> NoResponse]

\* OpenAIClient.parseResponse on the parsed JSON body.
OpenAIParseResponse(data) ==
    IF ~data.has_choices
    THEN Threw(Err("TypeError", "Cannot read properties of undefined",
                   0, "", ""))
    ELSE IF data.choices = <<>>
    THEN Threw(Err("Error", "No response from OpenAI API", 0, "", ""))
    ELSE LET choice == data.choices[1]
             content == choice.message.content
         IN  Parsed([finish_reason |-> parseFinishReason(choice.finish_reason),
                     message |->
                        Message("assistant",
                                IF content = Null THEN "" ELSE content,
                                IF Len(choice.message.tool_calls) > 0
                                THEN parseOpenAIToolCalls(
                                         choice.message.tool_calls)
                                ELSE <<>>,
                                -1, 1)])

\* AnthropicClient.parseResponse on the parsed JSON body.
AnthropicParseResponse(data) ==
    IF ~data.has_content
    THEN Threw(Err("TypeError", "Cannot read properties of undefined",
                   0, "", ""))
    ELSE LET f(b) == b.type = "tool_use"
             toolUseBlocks == SelectSeq(data.content, f)
             c == data.content
             textContent[i \in 0..Len(c)] ==
                 IF i = 0 THEN ""
                 ELSE textContent[i - 1]
                      \o (IF c[i].type = "text" THEN c[i].text ELSE "")
             finishReason ==
                 CASE data.stop_reason = "end_turn" -> "stop"
                   [] data.stop_reason = "tool_use" -> "tool_calls"
                   [] data.stop_reason = "max_tokens" -> "length"
                   [] OTHER -> "stop"
         IN  Parsed([finish_reason |-> finishReason,
                     message |->
                        Message("assistant", textContent[Len(c)],
                                IF Len(toolUseBlocks) > 0
                                THEN parseAnthropicToolUse(toolUseBlocks)
                                ELSE <<>>,
                                -1, 1)])

parseData(vendor, data) ==
    IF vendor = "openai" THEN OpenAIParseResponse(data)
    ELSE AnthropicParseResponse(data)

\* Response.ok
responseOk(status) == status >= 200 /\ status <= 299

\* Variant: the body is left out of the message.
httpError_NoBody(vendor, o) ==
    Err("Error",
        IF vendor = "openai" THEN "OpenAI API error" ELSE "Anthropic API error",
        o.status, o.statusText, "")

\* new Error(`... API error: ${status} ${statusText} - ${errorText}`)
httpError(vendor, o) ==
    Err("Error",
        IF vendor = "openai" THEN "OpenAI API error" ELSE "Anthropic API error",
        o.status, o.statusText, o.body)

\* const maxRetries = this.config.maxRetries || 3
maxRetriesOf(config) ==
    IF config.maxRetries = 0 THEN DefaultMaxRetries ELSE config.maxRetries

chatResolves(c, resp) ==
    [c EXCEPT !.chat.pc = "done",
              !.result = [state |-> "resolved", response |-> resp,
                          error |-> NoError]]

chatRejects(c, err) ==
    [c EXCEPT !.chat.pc = "done",
              !.result = [state |-> "rejected", response |-> NoResponse,
                          error |-> err]]

\* The test of the for loop: the next POST is issued and awaited, or the
\* throw that follows the loop.
chatLoopTop(c) ==
    IF c.chat.attempt < maxRetriesOf(c.config)
    THEN [c EXCEPT !.chat.pc = "fetch", !.chat.posts = @ + 1]
    ELSE chatRejects(c, IF c.chat.lastError = NoError
                        THEN Err("Error", "Unknown error", 0, "", "")
                        ELSE c.chat.lastError)

\* chat(messages, tools) up to its first await.
chatStart(c) ==
    chatLoopTop([c EXCEPT !.chat.pc = "start", !.chat.attempt = 0,
                          !.chat.lastError = NoError])

\* Variant: only the last attempt throws.
ThrowNow_LastOnly(attempt, maxRetries, err) == attempt = maxRetries - 1

\* if (attempt === maxRetries - 1 || lastError.name === "AbortError")
ThrowNow(attempt, maxRetries, err) ==
    attempt = maxRetries - 1 \/ err.name = "AbortError"

\* Math.pow(2, attempt) * 1000
backoffDelay(attempt) == 2 ^ attempt * 1000

\* The catch block: throw, or wait before the next attempt.
chatCatch(c, err) ==
    LET c1 == [c EXCEPT !.chat.lastError = err]
    IN  IF ThrowNow(c.chat.attempt, maxRetriesOf(c.config), err)
        THEN chatRejects(c1, err)
        ELSE [c1 EXCEPT !.chat.pc = "backoff",
                        !.chat.waits = Append(@, backoffDelay(c.chat.attempt))]

\* The backoff timer fired: attempt++ and the loop test.
afterBackoff(c) == chatLoopTop([c EXCEPT !.chat.attempt = @ + 1])

\* The try block from the settling of fetch: o is what fetch and the reading
\* of the body came to.
chatTry(c, o) ==
    LET c0 == [c EXCEPT !.chat.last = o]
    IN  CASE o.kind = "reject" ->
               chatCatch(c0, Err(o.name, "fetch failed", 0, "", ""))
          [] o.kind = "response" /\ ~responseOk(o.status) ->
               chatCatch(c0, httpError(c.config.vendor, o))
          [] o.kind = "response" /\ responseOk(o.status) /\ ~o.json ->
               chatCatch(c0, Err("SyntaxError", "Unexpected token", 0, "", ""))
          [] OTHER ->
               LET p == parseData(c.config.vendor, o.data)
               IN  IF p.threw THEN chatCatch(c0, p.error)
                   ELSE chatResolves(c0, p.response)

(***************************************************************************)
(* One chat call of a client, against every answer of the network and of   *)
(* the vendor.                                                             *)
(***************************************************************************)
\* The JSON bodies of OpenAI: without choices, with none, with one whose
\* tool_calls have entries of type "function" and of another type, each
\* carrying its position as id.
OpenAIData ==
    LET WireCall(i, type) ==
            [id |-> i, type |-> type,
             function |-> [name |-> "git_status", arguments |-> "{}"]]
        WireCallLists ==
            UNION {[1..n -> {WireCall(i, t) : i \in 1..MaxCalls,
                                              t \in {"function", "other"}}] :
                      n \in 0..MaxCalls}
    IN  {[has_choices |-> FALSE, choices |-> <<>>],
         [has_choices |-> TRUE, choices |-> <<>>]}
        \cup
        {[has_choices |-> TRUE,
          choices |-> <<[message |-> [content |-> c, tool_calls |-> tcs],
                         finish_reason |-> fr]>>] :
            c \in {Null, "x"},
            tcs \in {l \in WireCallLists : \A i \in DOMAIN l : l[i].id = i},
            fr \in RawFinishReasons}

\* The JSON bodies of Anthropic: without content, with text and tool_use
\* blocks and each stop_reason.
AnthropicData ==
    LET TextBlock ==
            [type |-> "text", text |-> "x", id |-> 0, name |-> "", input |-> ""]
        ToolUseBlock(i) ==
            [type |-> "tool_use", text |-> "", id |-> i, name |-> "git_status",
             input |-> "{}"]
        Blocks == {TextBlock} \cup {ToolUseBlock(i) : i \in 1..MaxCalls}
    IN  {[has_content |-> FALSE, content |-> <<>>, stop_reason |-> "end_turn"]}
        \cup
        {[has_content |-> TRUE, content |-> bl, stop_reason |-> sr] :
            bl \in {l \in UNION {[1..n -> Blocks] : n \in 0..MaxCalls} :
                       \A i \in DOMAIN l : l[i].type = "tool_use" => l[i].id = i},
            sr \in {"end_turn", "tool_use", "max_tokens", "stop_sequence"}}

\* The data of an outcome that has no JSON body.
NoData(vendor) ==
    IF vendor = "openai" THEN [has_choices |-> FALSE, choices |-> <<>>]
    ELSE [has_content |-> FALSE, content |-> <<>>, stop_reason |-> "end_turn"]

Outcome(kind, name, status, statusText, body, json, data) ==
    [kind |-> kind, name |-> name, status |-> status,
     statusText |-> statusText, body |-> body, json |-> json, data |-> data]

\* What one attempt may come to: fetch rejects (the network failed, or the
\* timeout aborted the request), or a response arrives: not 2xx with a body
\* of text, 2xx with a body that is no JSON, 2xx with a JSON body.
Outcomes(vendor) ==
    LET all == IF vendor = "openai" THEN OpenAIData ELSE AnthropicData
        none == NoData(vendor)
    IN  {Outcome("reject", n, 0, "", "", FALSE, none) :
            n \in {"TypeError", "AbortError"}}
        \cup
        {Outcome("response", "", st[1], st[2], b, FALSE, none) :
            st \in {<<429, "Too Many Requests">>,
                    <<500, "Internal Server Error">>},
            b \in {"", "overloaded"}}
        \cup
        {Outcome("response", "", 200, "OK", "<html>", FALSE, none)}
        \cup
        {Outcome("response", "", 200, "OK", "json", TRUE, d) : d \in all}

ClientInit ==
    /\ InitCommon
    /\ processor = "any"
    /\ toolCalls = <<>>
    /\ handled = NotCalled
    /\ applied = "none"
    /\ \E vendor \in {"openai", "anthropic"}, n \in 0..MaxConfigRetries :
          client =
            [config |-> [vendor |-> vendor, maxRetries |-> n],
             chat |-> [pc |-> "idle", attempt |-> 0, lastError |-> NoError,
                       posts |-> 0, waits |-> <<>>,
                       last |-> Outcome("none", "", 0, "", "", FALSE,
                                        NoData(vendor))],
             result |-> [state |-> "none", response |-> NoResponse,
                         error |-> NoError]]

Chat ==
    /\ client.chat.pc = "idle"
    /\ client' = chatStart(client)
    /\ UNCHANGED <<appVars, svcVars, handlerVars, applied>>

FetchSettle(o) ==
    /\ client.chat.pc = "fetch"
    /\ client' = chatTry(client, o)
    /\ UNCHANGED <<appVars, svcVars, handlerVars, applied>>

BackoffDone ==
    /\ client.chat.pc = "backoff"
    /\ client' = afterBackoff(client)
    /\ UNCHANGED <<appVars, svcVars, handlerVars, applied>>

ClientNext ==
    \/ Chat
    \/ \E o \in Outcomes(client.config.vendor) : FetchSettle(o)
    \/ BackoffDone

ClientSpec == ClientInit /\ [][ClientNext]_vars

(***************************************************************************)
(* The OpenAI adapter and the tool selection of a turn, one call at a      *)
(* time.  A tool id, an action name and a function name are the list of    *)
(* the segments that the underscores of the string separate: joining two   *)
(* names with "_" concatenates the lists, split("_") returns the list.     *)
(***************************************************************************)
MaxSegments == 2       \* segments of a tool id or an action name
MaxHistory == 2        \* messages converted by one toOpenAIMessages call
MaxTools == 2          \* tools of the registry
MaxActions == 10       \* actions of one tool
MaxLength == 5         \* characters of a user message
MaxParams == 2         \* parameters of one action

\* queryMatches.slice(0, 10)
MatchLimit == 10

\* toolToOpenAI(tool): one function per action, named `${tool.id}_${action.name}`
\* (description and parameters are left out).
toolToOpenAI(tool) ==
    IF ~tool.installed THEN <<>>
    ELSE [i \in 1..Len(tool.actions) |->
            [type |-> "function",
             function |-> [name |-> tool.id \o tool.actions[i]]]]

\* tools.flatMap(toolToOpenAI)
toOpenAITools(tools) ==
    LET flat[i \in 0..Len(tools)] ==
            IF i = 0 THEN <<>> ELSE flat[i - 1] \o toolToOpenAI(tools[i])
    IN  flat[Len(tools)]

\* const [toolId, actionName] = call.function.name.split("_"); actionName is
\* undefined (the empty list here) when the name has no underscore.
parseToolCallName(name) ==
    [toolId |-> <<name[1]>>,
     actionName |-> IF Len(name) >= 2 THEN <<name[2]>> ELSE <<>>]

\* toOpenAIMessages(messages): a field that is left out is -1 (tool_call_id)
\* or the empty list (tool_calls).
toOpenAIMessages(messages) ==
    [i \in 1..Len(messages) |->
        LET msg == messages[i]
        IN  [role |-> msg.role,
             content |-> msg.content,
             tool_call_id |-> IF msg.tool_call_id \notin {-1, 0}
                              THEN msg.tool_call_id ELSE -1,
             tool_calls |->
                [j \in 1..Len(msg.tool_calls) |->
                    LET tc == msg.tool_calls[j]
                    IN  [id |-> tc.id, type |-> tc.type,
                         function |->
                            [name |-> tc.function.name,
                             arguments |-> IF tc.function.arguments = ""
                                           THEN "{}"
                                           ELSE tc.function.arguments]]]]]

\* contextAwareChat up to the choice between chatWithTools and directChat:
\* the ids of the tools of autoSelect and of the first matches, without
\* repetition and in the order of their first occurrence, looked up in the
\* registry, the installed ones converted.
selectTools(t) ==
    LET top == SubSeq(t.matches, 1,
                      IF Len(t.matches) < MatchLimit THEN Len(t.matches)
                      ELSE MatchLimit)
        added == [i \in 1..Len(t.auto) |-> t.auto[i].id]
                 \o [i \in 1..Len(top) |-> top[i].tool.id]
        toolIds[i \in 0..Len(added)] ==
            IF i = 0 THEN <<>>
            ELSE LET seen == toolIds[i - 1]
                 IN  IF \E j \in DOMAIN seen : seen[j] = added[i] THEN seen
                     ELSE Append(seen, added[i])
        ids == toolIds[Len(added)]
        installed(tool) == tool.installed
        filteredTools ==
            SelectSeq([i \in 1..Len(ids) |-> t.registry[ids[i]]], installed)
    IN  toOpenAITools(filteredTools)

(***************************************************************************)
(* paramsToJsonSchema, of the adapter and of the executor.  A JavaScript   *)
(* value is a record of its type and its text; a parameter is its name,    *)
(* type, required flag and default (undefined when it declares none).  The *)
(* schema of a parameter has a default field only when one is assigned,    *)
(* and the description is left out.                                        *)
(***************************************************************************)
\* Variant: the default is carried only when it is truthy.
paramsToJsonSchema_Truthy(params) ==
    LET paramTypeToJsonSchema(param) ==
            LET type == CASE param.type \in {"string", "file", "directory"} ->
                               "string"
                          [] param.type = "number" -> "number"
                          [] param.type = "boolean" -> "boolean"
                          [] OTHER -> "string"
            IN  IF param.default.t # "undefined" /\ param.default.s # ""
                THEN [type |-> type, default |-> param.default]
                ELSE [type |-> type]
        last(n) == CHOOSE i \in DOMAIN params :
                      /\ params[i].name = n
                      /\ \A j \in DOMAIN params : j > i => params[j].name # n
        isRequired(param) == param.required
        required == SelectSeq(params, isRequired)
    IN  [type |-> "object",
         properties |-> [n \in {params[i].name : i \in DOMAIN params} |->
                            paramTypeToJsonSchema(params[last(n)])],
         required |-> [i \in DOMAIN required |-> required[i].name]]

\* adapters/openai: paramsToJsonSchema with paramTypeToJsonSchema.  The
\* properties are keyed by name: a later parameter of the same name replaces
\* an earlier one.
paramsToJsonSchema(params) ==
    LET paramTypeToJsonSchema(param) ==
            LET type == CASE param.type \in {"string", "file", "directory"} ->
                               "string"
                          [] param.type = "number" -> "number"
                          [] param.type = "boolean" -> "boolean"
                          [] OTHER -> "string"
            IN  IF param.default.t # "undefined"
                THEN [type |-> type, default |-> param.default]
                ELSE [type |-> type]
        last(n) == CHOOSE i \in DOMAIN params :
                      /\ params[i].name = n
                      /\ \A j \in DOMAIN params : j > i => params[j].name # n
        isRequired(param) == param.required
        required == SelectSeq(params, isRequired)
    IN  [type |-> "object",
         properties |-> [n \in {params[i].name : i \in DOMAIN params} |->
                            paramTypeToJsonSchema(params[last(n)])],
         required |-> [i \in DOMAIN required |-> required[i].name]]

\* executor: paramsToJsonSchema.  Its switch has no default branch: a type
\* it does not know leaves the schema without a type (and, with no default
\* either, with its description alone).
executorParamsToJsonSchema(params) ==
    LET known(param) ==
            param.type \in {"string", "file", "directory", "number", "boolean"}
        type(param) == IF param.type \in {"string", "file", "directory"}
                       THEN "string" ELSE param.type
        schema(param) ==
            CASE known(param) /\ param.default.t # "undefined" ->
                   [type |-> type(param), default |-> param.default]
              [] known(param) /\ param.default.t = "undefined" ->
                   [type |-> type(param)]
              [] ~known(param) /\ param.default.t # "undefined" ->
                   [default |-> param.default]
              [] OTHER -> [description |-> ""]
        last(n) == CHOOSE i \in DOMAIN params :
                      /\ params[i].name = n
                      /\ \A j \in DOMAIN params : j > i => params[j].name # n
        isRequired(param) == param.required
        required == SelectSeq(params, isRequired)
    IN  [type |-> "object",
         properties |-> [n \in {params[i].name : i \in DOMAIN params} |->
                            schema(params[last(n)])],
         required |-> [i \in DOMAIN required |-> required[i].name]]

(***************************************************************************)
(* executeToolAction on a tool, an action and the params of a call.  The   *)
(* params give every declared parameter a value, undefined when the call   *)
(* does not have it.                                                       *)
(***************************************************************************)
\* validateParams(action, params): the errors, in the order of the parameters.
validateParams(action, params) ==
    LET isNaN(value) == value.t = "string" /\ value.s \notin {"", "5"}
        errorsOf(param) ==
            LET value == params[param.name]
            IN  IF param.required /\ (value.t \in {"undefined", "null"}
                                      \/ value = [t |-> "string", s |-> ""])
                THEN <<[error |-> "Missing required parameter",
                        name |-> param.name]>>
                ELSE IF value.t \in {"undefined", "null"} THEN <<>>
                ELSE IF /\ param.type = "number"
                        /\ value.t # "number" /\ isNaN(value)
                THEN <<[error |-> "must be a number", name |-> param.name]>>
                ELSE IF /\ param.type = "boolean"
                        /\ value.t # "boolean"
                        /\ value.s \notin {"true", "false"}
                THEN <<[error |-> "must be a boolean", name |-> param.name]>>
                ELSE <<>>
        errors[i \in 0..Len(action.parameters)] ==
            IF i = 0 THEN <<>>
            ELSE errors[i - 1] \o errorsOf(action.parameters[i])
    IN  [valid |-> errors[Len(action.parameters)] = <<>>,
         errors |-> errors[Len(action.parameters)]]

\* fillDefaults(action, params): a copy in which a parameter that is
\* undefined has its declared default.
fillDefaults(action, params) ==
    LET declared(n) == {i \in DOMAIN action.parameters :
                           action.parameters[i].name = n}
        default(n) == action.parameters[CHOOSE i \in declared(n) : TRUE].default
    IN  [n \in DOMAIN params |->
            IF /\ declared(n) # {}
               /\ params[n].t = "undefined"
               /\ default(n).t # "undefined"
            THEN default(n) ELSE params[n]]

\* Variant: the defaults are filled before the validation.
executeToolActionCall_FillFirst(tool, action, params) ==
    LET failure(error) ==
            [handler |-> FALSE, success |-> FALSE, stdout |-> "",
             stderr |-> "", exitCode |-> Null, error |-> error,
             params |-> params]
        filledParams == fillDefaults(action, params)
        validation == validateParams(action, filledParams)
    IN  IF ~tool.installed THEN failure(<<"not installed">>)
        ELSE IF ~validation.valid
             THEN failure(<<"Parameter validation failed">> \o validation.errors)
             ELSE [handler |-> TRUE, params |-> filledParams]

\* executeToolAction(tool, action, params): the ExecutionResult it returns
\* itself, or the call of the handler found for the filled params (a handler
\* is always found: commandHandler matches every context).
executeToolActionCall(tool, action, params) ==
    LET failure(error) ==
            [handler |-> FALSE, success |-> FALSE, stdout |-> "",
             stderr |-> "", exitCode |-> Null, error |-> error,
             params |-> params]
        validation == validateParams(action, params)
        filledParams == fillDefaults(action, params)
    IN  IF ~tool.installed THEN failure(<<"not installed">>)
        ELSE IF ~validation.valid
             THEN failure(<<"Parameter validation failed">> \o validation.errors)
             ELSE [handler |-> TRUE, params |-> filledParams]

\* sendMessageWithStatus: const estimatedTokens = userMessage.length / 4, the
\* quotient of JavaScript numbers, kept as the fraction it is.
estimatedTokens(length) == [num |-> length, den |-> 4]

NotApplied(name, arg) == [name |-> name, arg |-> arg, done |-> FALSE, out |-> <<>>]

\* The lists of 0..n elements of S.
SeqsUpTo(S, n) == UNION {[1..k -> S] : k \in 0..n}

\* The argument of each function: the length of a user message; the
\* parameters an action declares (each under its own name); a tool of the
\* registry with one of its actions and the params of a call; a
\* list of chat
\* messages as the AI service builds them; the tool_calls of a vendor
\* response; the registry of a turn with what autoSelect and match returned
\* for it (installed tools only, a tool once in autoSelect, the matches of a
\* tool one per action and in the order of the scores).
FunctionInit ==
    /\ InitCommon
    /\ processor = "any"
    /\ toolCalls = <<>>
    /\ handled = NotCalled
    /\ client = "none"
    /\ LET Names == SeqsUpTo({"run", "script"}, MaxSegments) \ {<<>>}
           Args == {"", "{\"a\":1}"}
           Calls == {l \in SeqsUpTo({FunctionCall(i, <<"git", "status">>, a) :
                                        i \in 1..MaxCalls, a \in Args}, MaxCalls) :
                        \A i \in DOMAIN l : l[i].id = i}
           Messages ==
               {Message("user", "hi", <<>>, -1, 1)}
               \cup {Message("assistant", IF l = <<>> THEN "done" ELSE "",
                             l, -1, 1) : l \in Calls}
               \cup {Message("tool", "ok", <<>>, id, 1) : id \in 0..1}
           Wire == {[id |-> i, type |-> ty,
                     function |-> [name |-> n, arguments |-> a]] :
                       i \in 1..MaxCalls, ty \in {"function", "other"},
                       n \in {<<"git", "status">>, <<"git", "log">>}, a \in Args}
           ToolIds == {<<i>> : i \in 1..MaxTools}
           Registries ==
               {r \in [ToolIds -> [id : ToolIds, installed : BOOLEAN,
                                   actions : {[k \in 1..n |-> <<k>>] :
                                                 n \in {1, MaxActions}}]] :
                   \A id \in ToolIds : r[id].id = id}
           Orders == {o \in SeqsUpTo(ToolIds, MaxTools) :
                         \A i, j \in DOMAIN o : i # j => o[i] # o[j]}
           matchesOf(r, o) ==
               LET m[i \in 0..Len(o)] ==
                       IF i = 0 THEN <<>>
                       ELSE m[i - 1] \o [k \in 1..Len(r[o[i]].actions) |->
                                            [tool |-> r[o[i]],
                                             action |-> r[o[i]].actions[k]]]
               IN  m[Len(o)]
           Js(t, text) == [t |-> t, s |-> text]
           Defaults == {Js("undefined", ""), Js("string", ""),
                        Js("string", "main")}
           ParamTypes == {"string", "file", "directory", "number", "boolean"}
           ParamLists(Types, Ds) ==
               {l \in SeqsUpTo([name : 1..MaxParams, type : Types,
                                required : BOOLEAN, default : Ds], MaxParams) :
                   \A i \in DOMAIN l : l[i].name = i}
           Values == {Js("undefined", ""), Js("null", ""), Js("string", ""),
                      Js("string", "abc"), Js("string", "5"),
                      Js("string", "true"), Js("number", "5")}
       IN  \/ \E n \in 0..MaxLength :
                 applied = NotApplied("estimatedTokens", n)
           \/ \E ps \in ParamLists(ParamTypes, Defaults) :
                 applied = NotApplied("paramsToJsonSchema", ps)
           \/ \E inst \in BOOLEAN,
                 ps \in ParamLists({"string", "number", "boolean"},
                                   {Js("undefined", ""), Js("string", "main")}) :
                 \E params \in [DOMAIN ps -> Values] :
                    applied = NotApplied("executeToolAction",
                                 [tool |-> [installed |-> inst],
                                  action |-> [parameters |-> ps],
                                  params |-> params])
           \/ \E id \in Names, inst \in BOOLEAN,
                 as \in SeqsUpTo(Names, MaxSegments) \ {<<>>} :
                 applied = NotApplied("toolToOpenAI",
                              [id |-> id, installed |-> inst, actions |-> as])
           \/ \E ms \in SeqsUpTo(Messages, MaxHistory) :
                 applied = NotApplied("toOpenAIMessages", ms)
           \/ \E tcs \in SeqsUpTo(Wire, MaxCalls) :
                 applied = NotApplied("parseOpenAIToolCalls", tcs)
           \/ \E r \in Registries, a \in Orders, o \in Orders :
                 /\ \A i \in DOMAIN a : r[a[i]].installed
                 /\ \A i \in DOMAIN o : r[o[i]].installed
                 /\ \A i, j \in DOMAIN a : i < j => a[i][1] < a[j][1]
                 /\ applied = NotApplied("selectTools",
                                 [registry |-> r,
                                  auto |-> [i \in DOMAIN a |-> r[a[i]]],
                                  matches |-> matchesOf(r, o)])

Returns(out) ==
    /\ ~applied.done
    /\ applied' = [applied EXCEPT !.done = TRUE, !.out = out]
    /\ UNCHANGED <<appVars, svcVars, handlerVars, client>>

\* sendMessageWithStatus up to the estimate it passes to canAccommodate and
\* ensureSpace.
EstimateTokens ==
    applied.name = "estimatedTokens" /\ Returns(estimatedTokens(applied.arg))

\* Both implementations on the same parameters.
ParamsToJsonSchema ==
    /\ applied.name = "paramsToJsonSchema"
    /\ Returns([adapter |-> paramsToJsonSchema(applied.arg),
                executor |-> executorParamsToJsonSchema(applied.arg)])

ExecuteToolAction ==
    /\ applied.name = "executeToolAction"
    /\ Returns(executeToolActionCall(applied.arg.tool, applied.arg.action,
                                     applied.arg.params))

ToolToOpenAI ==
    applied.name = "toolToOpenAI" /\ Returns(toolToOpenAI(applied.arg))

ToOpenAIMessages ==
    applied.name = "toOpenAIMessages" /\ Returns(toOpenAIMessages(applied.arg))

ParseOpenAIToolCalls ==
    /\ applied.name = "parseOpenAIToolCalls"
    /\ Returns(parseOpenAIToolCalls(applied.arg))

SelectTools ==
    applied.name = "selectTools" /\ Returns(selectTools(applied.arg))

FunctionNext ==
    \/ EstimateTokens
    \/ ParamsToJsonSchema
    \/ ExecuteToolAction
    \/ ToolToOpenAI
    \/ ToOpenAIMessages
    \/ ParseOpenAIToolCalls
    \/ SelectTools

FunctionSpec == FunctionInit /\ [][FunctionNext]_vars

(***************************************************************************)
(* Properties.                                                             *)
(***************************************************************************)
Events(cb, m) == {i \in DOMAIN log : log[i].cb = cb /\ log[i].id = m}

Starts(m) == Cardinality(Events("onMessageStart", m))
Completes(m) == Cardinality(Events("onMessageComplete", m))
Errors(m) == Cardinality(Events("onMessageError", m))

FiredCbs(cb) == {i \in DOMAIN fired : fired[i].cb = cb}

QCount(m) == Cardinality({i \in DOMAIN queue : queue[i] = m})

\* The enqueued messages that have neither been started nor dropped.
Waiting == {m \in 1..idCounter : promise[m] = "none" /\ m \notin discarded}

\* C1: at most one processor invocation is in flight at any time, in every
\* interleaving of enqueue, stop, clear and processor completions.
C1_OneInFlight == Cardinality(InFlight(Cur)) <= 1

\* An enqueue that arrived after a stop() while a message was still in flight.
C1_Witness ==
    /\ op.name = "enqueue"
    /\ InFlight(Cur) \cap stoppedDuring # {}
    /\ op.m \in Range(queue)

\* C2: messages are processed in enqueue order: every callback of an earlier
\* message (start, complete, error) precedes the start of a later one.
C2_EnqueueOrder ==
    \A i, j \in DOMAIN log :
        (log[i].cb = "onMessageStart" /\ log[j].id < log[i].id) => j < i

\* Three messages started, with a completed and a failed one among them.
C2_Witness ==
    /\ Starts(3) = 1
    /\ \E m \in Ids : Completes(m) = 1
    /\ \E m \in Ids : Errors(m) = 1

\* C3: once stop() has been called while a message is in flight, no callback
\* (result, error or streaming) fires for that message any more.
C3_NoCallbackAfterStop ==
    \A i \in DOMAIN fired : fired[i].id \notin stoppedDuring

\* C4: every enqueued message is handed to the processor at most once, and
\* exactly once unless stop() or clear() dropped it first: it is waiting in
\* the queue, dropped, or started once, and nothing waits in an idle queue.
C4_ExactlyOnce ==
    /\ \A m \in Ids : m > idCounter => Starts(m) = 0 /\ QCount(m) = 0
    /\ \A m \in 1..idCounter :
          QCount(m) + (IF m \in discarded THEN 1 ELSE 0) + Starts(m) = 1
    /\ InFlight(Cur) = {} => queue = <<>>

\* An idle queue after some messages were dropped and a later one was started.
C4_Witness ==
    /\ InFlight(Cur) = {}
    /\ \E d \in discarded : \E m \in Ids : m > d /\ Starts(m) = 1

\* C5: stop() returns the number of messages waiting (the one in flight is
\* not counted), calls onStopped with that number, and none of the messages
\* it dropped is ever started.
C5_StopStep ==
    op'.name = "stop" =>
        /\ op'.val = Cardinality(Waiting)
        /\ fired' = <<Ev("onStopped", 0, Cardinality(Waiting))>>
        /\ Waiting \subseteq discarded'

C5_StopCount ==
    /\ [][C5_StopStep]_vars
    /\ [](\A m \in discarded : Starts(m) = 0 /\ promise[m] = "none")

\* stop() has just dropped two waiting messages while a third is in flight.
C5_Witness ==
    /\ op.name = "stop"
    /\ op.val = 2
    /\ InFlight(Cur) # {}

\* C6: a started message whose processing was not stopped gets exactly one
\* of onMessageComplete / onMessageError, once, after its onMessageStart,
\* and the one that matches how its processor settled.
C6_ExactlyOneResult ==
    \A m \in Ids :
        /\ Completes(m) + Errors(m) <= 1
        /\ \A i \in DOMAIN log :
              (log[i].id = m /\ log[i].cb \in ResultCbs) =>
                  \E j \in 1..(i - 1) : log[j] = Ev("onMessageStart", m, 0)
        /\ Completes(m) = 1 => promise[m] = "resolved"
        /\ Errors(m) = 1 => promise[m] = "rejected"
        /\ (m \notin stoppedDuring /\ promise[m] = "resolved") => Completes(m) = 1
        /\ (m \notin stoppedDuring /\ promise[m] = "rejected") => Errors(m) = 1

\* A resolved and a rejected message, neither stopped, and a stopped one.
C6_Witness ==
    /\ stoppedDuring # {}
    /\ \E m \in Ids \ stoppedDuring : promise[m] = "resolved"
    /\ \E m \in Ids \ stoppedDuring : promise[m] = "rejected"

\* C7: when a processor rejects and the queue is not stopped, onMessageError
\* fires for that message only and the next queued message is started.
C7_RejectStep ==
    (/\ op'.name = "settle"
     /\ promise[op'.m] = "pending"
     /\ promise'[op'.m] = "rejected"
     /\ ~stopped)
    => IF queue # <<>>
       THEN /\ fired' = <<Ev("onMessageError", op'.m, 0),
                          Ev("onMessageStart", Head(queue), 0)>>
            /\ promise'[Head(queue)] = "pending"
            /\ queue' = Tail(queue)
       ELSE fired' = <<Ev("onMessageError", op'.m, 0), Ev("onQueueEmpty", 0, 0)>>

C7_ErrorThenNext == [][C7_RejectStep]_vars

\* A rejection has just been reported and the next message started.
C7_Witness ==
    /\ op.name = "settle"
    /\ promise[op.m] = "rejected"
    /\ Len(fired) = 2
    /\ fired[2].cb = "onMessageStart"

\* C8: enqueue always clears stopped and starts the message at once when
\* nothing is in flight; and every message in the queue is eventually started
\* unless a stop() or clear() drops it, if every processor settles.
C8_EnqueueStep ==
    op'.name = "enqueue" =>
        /\ ~stopped'
        /\ InFlight(Cur) = {} =>
              (promise'[op'.m] = "pending" /\
               fired' = <<Ev("onMessageStart", op'.m, 0)>>)
        /\ InFlight(Cur) # {} => op'.m \in Range(queue')

C8_EnqueueStarts ==
    /\ [][C8_EnqueueStep]_vars
    /\ \A m \in Ids :
          (m \in Range(queue)) ~> (promise[m] # "none" \/ m \in discarded)

\* A message enqueued after stop() while the stopped message was in flight
\* has been started.
C8_Witness ==
    /\ op.name = "settle"
    /\ op.m \in stoppedDuring
    /\ \E m \in InFlight(Cur) : m > op.m

\* C9: onQueueEmpty fires exactly once when the queue drains (a processor
\* settled, nothing is in flight or queued, not stopped) and at no other time.
C9_QueueEmpty ==
    LET n == Cardinality(FiredCbs("onQueueEmpty"))
        drained == /\ op.name = "settle"
                   /\ InFlight(Cur) = {}
                   /\ queue = <<>>
                   /\ ~stopped
    IN  IF drained
        THEN n = 1 /\ fired[Len(fired)].cb = "onQueueEmpty"
        ELSE n = 0

\* The queue has drained for the second time.
C9_Witness ==
    /\ op.name = "settle"
    /\ FiredCbs("onQueueEmpty") # {}
    /\ op.m >= 2
    /\ Starts(1) = 1

\* C10: at most one sendMessage round is in flight in the application.
C10_OneRound == Cardinality(rounds) <= 1

TraceEvents(e) == {i \in DOMAIN svcOp.trace : svcOp.trace[i].e = e}

\* The tool messages at the end of a history.
RECURSIVE TrailingTools(_)
TrailingTools(h) ==
    IF h = <<>> \/ h[Len(h)].role # "tool" THEN 0
    ELSE 1 + TrailingTools(SubSeq(h, 1, Len(h) - 1))

\* C11: a sendMessage makes at most maxToolCallRounds tool rounds, hence at
\* most that many vendor calls in the tool loop; when the vendor has answered
\* with tool calls that many times the call resolves, without a further
\* vendor call, with the fixed max-rounds message, which nothing else returns.
C11_Bounded ==
    /\ call.rounds <= maxToolCallRounds
    /\ (call.tools /\ call.pc \in {"chat", "tools"}) =>
           call.rounds < maxToolCallRounds
    /\ svcOp.ret.value = MaxRoundsMessage =>
           /\ svcOp.ret.state = "resolved"
           /\ svcOp.name = "tools"
           /\ call = Idle
           /\ TraceEvents("chat") = {}

C11_Step ==
    (call.pc = "tools" /\ svcOp'.name = "tools" /\ svcOp'.ret.state # "rejected")
    => IF call.rounds + 1 >= maxToolCallRounds
       THEN svcOp'.ret = [state |-> "resolved", value |-> MaxRoundsMessage]
       ELSE /\ call'.pc = "chat"
            /\ call'.rounds = call.rounds + 1
            /\ svcOp'.ret = NotReturned

C11_MaxRounds == []C11_Bounded /\ [][C11_Step]_vars

\* The vendor has answered with tool calls maxToolCallRounds times and the
\* call has resolved with the max-rounds message.
C11_Witness ==
    /\ svcOp.ret = [state |-> "resolved", value |-> MaxRoundsMessage]
    /\ Cardinality({i \in DOMAIN session : session[i].tool_calls # <<>>})
           = maxToolCallRounds
    /\ TrailingTools(session) > 0

\* Whether the events of the step from position i on are the appends of the
\* messages ms, in order.
RECURSIVE AppendsFrom(_, _, _)
AppendsFrom(tr, i, ms) ==
    IF ms = <<>> THEN TRUE
    ELSE /\ i <= Len(tr)
         /\ tr[i].e = "append"
         /\ tr[i].arg = Head(ms)
         /\ AppendsFrom(tr, i + 1, Tail(ms))

\* C12: in the tool loop a response with finish_reason tool_calls (and tool
\* calls in it) is appended to the Session before the handler is invoked;
\* the handler's messages are then appended in the order returned, and only
\* then is the next vendor call made, with the extended history; any other
\* response is appended, ends the loop, and its content is what sendMessage
\* returns.
C12_ChatStep ==
    (/\ call.pc = "chat"
     /\ call.tools
     /\ svcOp'.name = "chat"
     /\ svcOp'.ret.state # "rejected")
    => LET tr == svcOp'.trace
           resp == tr[1].arg
       IN  /\ tr[1].e = "response"
           /\ AppendsFrom(tr, 2, <<resp.message>>)
           /\ session' = Append(session, resp.message)
           /\ Len(tr) = 3
           /\ IF IsToolRound(resp)
              THEN /\ tr[3].e = "handleToolCalls"
                   /\ tr[3].arg = resp.message.tool_calls
                   /\ call'.pc = "tools"
                   /\ svcOp'.ret = NotReturned
              ELSE /\ tr[3].e = "return"
                   /\ call' = Idle
                   /\ svcOp'.ret = [state |-> "resolved",
                                    value |-> resp.message.content]

C12_ToolsStep ==
    (/\ call.pc = "tools"
     /\ svcOp'.name = "tools"
     /\ svcOp'.ret.state # "rejected")
    => LET tr == svcOp'.trace
           results ==
              handleToolCalls(call.messages[Len(call.messages)].tool_calls).results
       IN  /\ AppendsFrom(tr, 1, results)
           /\ session' = session \o results
           /\ Len(tr) = Len(results) + 1
           /\ tr[Len(tr)].e \in {"chat", "return"}
           /\ tr[Len(tr)].e = "chat" =>
                 /\ tr[Len(tr)].arg = session'
                 /\ call'.pc = "chat"

C12_LoopOrder == [][C12_ChatStep /\ C12_ToolsStep]_vars

\* Two tool messages have just been appended and the next vendor call made.
C12_Witness ==
    /\ svcOp.name = "tools"
    /\ Len(svcOp.trace) = 3
    /\ svcOp.trace[3].e = "chat"
    /\ svcOp.trace[1].arg.tool_call_id # svcOp.trace[2].arg.tool_call_id

\* A history in which every assistant message is followed at once by one
\* tool message per tool call of it, in call order and with the call's
\* non-empty id, and in which there is no other tool message.
RECURSIVE Linked(_)
Linked(h) ==
    IF h = <<>> THEN TRUE
    ELSE LET m == Head(h)
             n == Len(m.tool_calls)
         IN  /\ m.role # "tool"
             /\ Len(h) >= n + 1
             /\ \A k \in 1..n :
                   /\ h[k + 1].role = "tool"
                   /\ h[k + 1].tool_call_id = m.tool_calls[k].id
                   /\ h[k + 1].tool_call_id # 0
             /\ Len(h) >= n + 1 => Linked(SubSeq(h, n + 2, Len(h)))

\* C13: after any sequence of sendMessage calls the history is tool-linked
\* one-to-one: every tool message answers, with a non-empty id, a tool call
\* of a preceding assistant message, and every tool call of an assistant
\* message is answered by exactly one tool message, in call order, before
\* the next user or assistant message.
C13_ToolLinked == call.pc = "idle" => Linked(session)

\* C14: for any list of N tool calls (valid, invalid, duplicate ids)
\* handleToolCalls returns exactly N messages, the i-th with role tool and
\* with the id of the i-th call as its tool_call_id.
C14_ExactlyN ==
    handled.called =>
        /\ Len(handled.results) = Len(toolCalls)
        /\ \A i \in DOMAIN toolCalls :
              /\ handled.results[i].role = "tool"
              /\ handled.results[i].tool_call_id = toolCalls[i].id

\* C15: handleToolCalls never rejects: a call that fails (unknown tool or
\* action, tool not installed, invalid parameters, malformed JSON arguments,
\* execution error) gets an error message of role tool, the other calls of
\* the list get their results.
C15_NeverRejects ==
    handled.called =>
        /\ ~handled.rejected
        /\ \A i \in DOMAIN handled.results :
              handled.results[i].role = "tool"
        /\ \A i \in DOMAIN toolCalls :
              i \in DOMAIN handled.results =>
                 (toolCalls[i].fn = "ok" <=> handled.results[i].content = "stdout")

\* C16: when the summary request of an auto-compaction rejects, the failure
\* is the error of the turn: the processor of the message rejects,
\* onMessageError fires for it, and its own sendMessage is not made.
C16_Step ==
    (/\ op'.name = "round"
     /\ op'.m \in Ids
     /\ pm[op'.m].pc = "compact"
     /\ op'.val = 0)
    => /\ promise'[op'.m] = "rejected"
       /\ ~stopped => \E i \in DOMAIN fired' :
                         fired'[i] = Ev("onMessageError", op'.m, 0)
       /\ \A r \in rounds' : ~(r.kind = "msg" /\ r.of = op'.m)

C16_CompactFailureIsTurnError == [][C16_Step]_vars

\* C17: when shouldCompact reported true for a message, its sendMessage is
\* made only after the compaction has completed: the summary round resolved
\* and compactWith replaced the history the user turn is appended to.
C17_Step ==
    \A m \in Ids :
        (pm[m].pc # "send" /\ pm'[m].pc = "send") =>
            /\ pm[m].pc = "build" => op'.val = 0
            /\ pm[m].pc = "compact" =>
                  /\ op'.val = 1
                  /\ history'[pm[m].svc] = <<"summary", "user">>

C17_CompactBeforeSend == [][C17_Step]_vars

\* C18: after every step that changes the Session through the AI service the
\* estimated tokens of the history do not exceed contextWindow (the system
\* prompt is empty here), so that getAvailableTokens is not cut off at 0.
C18_Budget == SumTokens(session) <= contextWindow

IsPrefix(h1, h2) == Len(h1) <= Len(h2) /\ SubSeq(h2, 1, Len(h1)) = h1

\* C20: apart from compactWith and the explicit clear, every step leaves the
\* earlier history as a prefix of the later one: sendMessage,
\* sendMessageWithStatus and failed turns only append.
C20_Step ==
    svcOp'.name \notin {"compactWith", "clearHistory"} =>
        IsPrefix(session, session')

C20_AppendOnly == [][C20_Step]_vars

(***************************************************************************)
(* The vendor clients.                                                     *)
(***************************************************************************)
\* fetch settled in this step; client'.chat.last is what it came to.
FetchSettled == client.chat.pc = "fetch" /\ client'.chat # client.chat

\* C21: for every configured maxRetries >= 0 a chat call issues at most
\* maxRetries POSTs after its first one.
C21_RetryBound == client.chat.posts <= 1 + client.config.maxRetries

\* C22: when an attempt fails with an AbortError, whichever attempt it is,
\* chat rejects in that step with that error: no further POST is issued and
\* no backoff delay is waited.
C22_Step ==
    (FetchSettled /\ client'.chat.last.kind = "reject"
                  /\ client'.chat.last.name = "AbortError") =>
        /\ client'.chat.pc = "done"
        /\ client'.result.state = "rejected"
        /\ client'.result.error.name = "AbortError"
        /\ client'.chat.posts = client.chat.posts
        /\ client'.chat.waits = client.chat.waits

C22_AbortNotRetried == [][C22_Step]_vars

\* An abort on an attempt that is neither the first nor the last allowed.
C22_Witness ==
    /\ client.result.state = "rejected"
    /\ client.result.error.name = "AbortError"
    /\ client.chat.attempt >= 1
    /\ client.chat.attempt < maxRetriesOf(client.config) - 1

\* C23: a 2xx response that cannot be parsed into an AIResponse (a body that
\* is no JSON, a body without choices) is not retried: chat rejects in that
\* step with the parsing error.
C23_Step ==
    LET o == client'.chat.last
    IN  (FetchSettled /\ o.kind = "response" /\ responseOk(o.status)
            /\ (~o.json \/ parseData(client.config.vendor, o.data).threw)) =>
            /\ client'.chat.pc = "done"
            /\ client'.result.state = "rejected"
            /\ client'.chat.waits = client.chat.waits

C23_ProtocolErrorNotRetried == [][C23_Step]_vars

\* C24: a response that is not 2xx raises an error whose message carries the
\* status code, the status text and the body; chat does not resolve on it,
\* and rejects with that error when it was the last attempt; chat resolves
\* only on a 2xx response.
C24_Step ==
    LET o == client'.chat.last
        e == client'.chat.lastError
    IN  (FetchSettled /\ o.kind = "response" /\ ~responseOk(o.status)) =>
            /\ e.status = o.status
            /\ e.statusText = o.statusText
            /\ e.body = o.body
            /\ client'.result.state # "resolved"
            /\ client'.chat.pc = "done" =>
                  client'.result.state = "rejected" /\ client'.result.error = e
            /\ client.chat.attempt = maxRetriesOf(client.config) - 1 =>
                  client'.chat.pc = "done"

C24_Resolved ==
    client.result.state = "resolved" =>
        client.chat.last.kind = "response" /\ responseOk(client.chat.last.status)

C25_ToolCallsNonEmpty ==
    (client.result.state = "resolved"
        /\ client.result.response.finish_reason = "tool_calls") =>
        Len(client.result.response.message.tool_calls) > 0

(***************************************************************************)
(* The adapter and the tool selection.                                     *)
(***************************************************************************)
Returned(name) == applied.name = name /\ applied.done

\* C26: the function name toolToOpenAI builds for an action of a tool is
\* decoded by the handler to the same tool id and the same action name,
\* also when one of them contains underscores.
C26_RoundTrip ==
    Returned("toolToOpenAI") =>
        \A i \in DOMAIN applied.out :
            parseToolCallName(applied.out[i].function.name)
                = [toolId |-> applied.arg.id,
                   actionName |-> applied.arg.actions[i]]

\* C27: toOpenAIMessages returns one message per message, in order, each
\* with the role, the content, the tool_call_id and the id and name of every
\* tool call of its source; arguments are unchanged except that the empty
\* string becomes "{}".
C27_OneToOne ==
    Returned("toOpenAIMessages") =>
        /\ Len(applied.out) = Len(applied.arg)
        /\ \A i \in DOMAIN applied.arg :
              LET msg == applied.arg[i]
                  res == applied.out[i]
              IN  /\ res.role = msg.role
                  /\ res.content = msg.content
                  /\ res.tool_call_id = msg.tool_call_id
                  /\ Len(res.tool_calls) = Len(msg.tool_calls)
                  /\ \A j \in DOMAIN msg.tool_calls :
                        LET tc == msg.tool_calls[j]
                            rc == res.tool_calls[j]
                        IN  /\ rc.id = tc.id
                            /\ rc.function.name = tc.function.name
                            /\ rc.function.arguments =
                                  IF tc.function.arguments = "" THEN "{}"
                                  ELSE tc.function.arguments

\* C28: parseOpenAIToolCalls returns exactly the entries of type "function",
\* in the order of the input, with id, name and arguments unchanged.
C28_FunctionEntries ==
    Returned("parseOpenAIToolCalls") =>
        LET tcs == applied.arg
            idx == {i \in DOMAIN tcs : tcs[i].type = "function"}
            nth(j) == CHOOSE i \in idx : Cardinality({k \in idx : k <= i}) = j
        IN  /\ Len(applied.out) = Cardinality(idx)
            /\ \A j \in DOMAIN applied.out :
                  /\ applied.out[j].id = tcs[nth(j)].id
                  /\ applied.out[j].type = "function"
                  /\ applied.out[j].function = tcs[nth(j)].function

\* An entry of another type between two entries of type "function" that
\* differ in id and name.
C28_Witness ==
    /\ Returned("parseOpenAIToolCalls")
    /\ Len(applied.arg) >= 2
    /\ Len(applied.out) >= 1
    /\ Len(applied.out) < Len(applied.arg)
    /\ applied.arg[1].type = "other"

\* C29: the functions offered for a turn are those of every installed tool
\* that autoSelect or match returned, and none of them appears twice.
C29_Union ==
    Returned("selectTools") =>
        LET t == applied.arg
            selected == {t.auto[i] : i \in DOMAIN t.auto}
                        \cup {t.matches[i].tool : i \in DOMAIN t.matches}
        IN  /\ \A tool \in selected :
                  \A k \in DOMAIN tool.actions :
                      \E i \in DOMAIN applied.out :
                          applied.out[i].function.name
                              = tool.id \o tool.actions[k]
            /\ \A i, j \in DOMAIN applied.out :
                  i # j => applied.out[i] # applied.out[j]

(***************************************************************************)
(* stop() and what is in flight.                                           *)
(***************************************************************************)
\* C30: stop() can be called in every state of the queue; it sets stopped,
\* empties the list of waiting messages and reports their number (return
\* value and onStopped) and changes nothing else; the round of a message
\* that was in flight is not abandoned: when it resolves later, the
\* assistant message is appended to the Session and the processor resolves.
C30_StopStep ==
    op'.name = "stop" =>
        /\ stopped'
        /\ queue' = <<>>
        /\ op'.val = Len(queue)
        /\ fired' = <<Ev("onStopped", 0, Len(queue))>>
        /\ UNCHANGED <<processing, idCounter, processor, log, promise,
                       aiService, history, rounds, pm, compactCmds>>

C30_RoundStep ==
    LET m == op'.m
    IN  (op'.name = "round" /\ op'.val = 1 /\ m \in stoppedDuring
            /\ pm[m].pc = "send") =>
            /\ history'[pm[m].svc] = Append(history[pm[m].svc], "assistant")
            /\ promise'[m] = "resolved"

C30_StopOnlyStops ==
    /\ [](ENABLED StopProcessing)
    /\ [][C30_StopStep /\ C30_RoundStep]_vars

\* stop() was called while a message was in flight and others were waiting,
\* and the round of that message has resolved since, the queue still stopped.
C30_Witness ==
    /\ stopped
    /\ op.name = "round"
    /\ op.val = 1
    /\ op.m \in stoppedDuring
    /\ discarded # {}
    /\ promise[op.m] = "resolved"

\* The ids the queue has handed out that are still known somewhere.
KnownIds ==
    Range(queue) \cup {m \in Ids : promise[m] # "none"} \cup discarded
    \cup {log[i].id : i \in DOMAIN log}

\* C31: every id enqueue returns differs from every id returned before, and
\* its counter component grows with each enqueue: an enqueue returns a counter
\* above the one before it and above every id handed out so far, and no other
\* operation, stop() and clear() included, moves the counter.
C31_Step ==
    IF op'.name = "enqueue" /\ op' # op
    THEN /\ op'.val > idCounter
         /\ op'.val = op'.m
         /\ idCounter' = op'.val
         /\ \A m \in KnownIds : m < op'.val
    ELSE idCounter' = idCounter

C31_UniqueIds ==
    /\ [](\A m \in KnownIds : m <= idCounter /\ QCount(m) <= 1)
    /\ [][C31_Step]_vars

\* The last enqueue came after a stop() that caught a message in flight and
\* after messages were discarded from the queue.
C31_Witness ==
    /\ op.name = "enqueue"
    /\ op.val = MaxMsgs
    /\ stoppedDuring # {}
    /\ discarded # {}

\* C32: every token estimate the AI service passes to the Session is an
\* integer, whatever the length of the user message.
C32_IntegerEstimate ==
    Returned("estimatedTokens") => applied.out.num % applied.out.den = 0

\* C33: paramsToJsonSchema, of the adapter and of the executor, gives one
\* property per parameter, of type string for string, file and directory,
\* number for number and boolean for boolean; the property has a default
\* exactly when the parameter declares one, with its value; required lists
\* the names of the required parameters in the order of their declaration.
C33_Schema ==
    Returned("paramsToJsonSchema") =>
        \A schema \in {applied.out.adapter, applied.out.executor} :
            LET params == applied.arg
                isRequired(param) == param.required
                required == SelectSeq(params, isRequired)
            IN  /\ schema.type = "object"
                /\ DOMAIN schema.properties =
                      {params[i].name : i \in DOMAIN params}
                /\ Cardinality(DOMAIN schema.properties) = Len(params)
                /\ \A i \in DOMAIN params :
                      LET param == params[i]
                          property == schema.properties[param.name]
                      IN  /\ property.type =
                                CASE param.type \in {"string", "file",
                                                     "directory"} -> "string"
                                  [] param.type = "number" -> "number"
                                  [] param.type = "boolean" -> "boolean"
                          /\ ("default" \in DOMAIN property)
                                <=> param.default.t # "undefined"
                          /\ "default" \in DOMAIN property =>
                                property.default = param.default
                /\ schema.required = [i \in DOMAIN required |-> required[i].name]

\* Two parameters were converted: a required file parameter without a
\* default, then an optional one whose default is the empty string.
C33_Witness ==
    /\ Returned("paramsToJsonSchema")
    /\ Len(applied.arg) = 2
    /\ applied.arg[1].type = "file" /\ applied.arg[1].required
    /\ applied.arg[1].default.t = "undefined"
    /\ ~applied.arg[2].required
    /\ applied.arg[2].default = [t |-> "string", s |-> ""]
    /\ applied.out.adapter.required = <<1>>

\* A required parameter of the call has no value: it is undefined, null or
\* the empty string.
MissingRequired ==
    \E i \in DOMAIN applied.arg.action.parameters :
        LET param == applied.arg.action.parameters[i]
        IN  /\ param.required
            /\ \/ applied.arg.params[param.name].t \in {"undefined", "null"}
               \/ applied.arg.params[param.name] = [t |-> "string", s |-> ""]

\* C39: when the tool is not installed or the validation of the params
\* fails, executeToolAction calls no handler and resolves with success =
\* false, exitCode = null and an error text; the installation is looked at
\* before the params, and the params are validated as the call gave them,
\* before any default is filled in.
C39_NoHandlerOnFailure ==
    Returned("executeToolAction") =>
        LET tool == applied.arg.tool
            validation == validateParams(applied.arg.action, applied.arg.params)
            result == applied.out
        IN  /\ (~tool.installed \/ ~validation.valid \/ MissingRequired) =>
                  /\ ~result.handler
                  /\ result.success = FALSE
                  /\ result.exitCode = Null
                  /\ result.error # <<>>
                  /\ result.params = applied.arg.params
            /\ ~tool.installed => result.error = <<"not installed">>
            /\ (tool.installed /\ (~validation.valid \/ MissingRequired)) =>
                  /\ Head(result.error) = "Parameter validation failed"
                  /\ Len(result.error) > 1
            /\ (tool.installed /\ validation.valid /\ ~MissingRequired) =>
                  result.handler

\* An installed tool was called without the value of a required parameter
\* that declares a default.
C39_Witness ==
    /\ Returned("executeToolAction")
    /\ applied.arg.tool.installed
    /\ \E i \in DOMAIN applied.arg.action.parameters :
          LET param == applied.arg.action.parameters[i]
          IN  /\ param.required
              /\ param.default.t # "undefined"
              /\ applied.arg.params[param.name].t = "undefined"
    /\ ~applied.out.handler

\* C38: clear() removes the messages that have not started and nothing
\* else: stopped, processing, the counter and the promise of the message in
\* flight are as before and no callback is called.
C38_ClearStep ==
    op'.name = "clear" =>
        /\ queue' = <<>>
        /\ discarded' = discarded \cup Range(queue)
        /\ stopped' = stopped
        /\ processing' = processing
        /\ idCounter' = idCounter
        /\ promise' = promise
        /\ fired' = <<>>
        /\ log' = log

\* C38: when the message in flight settles after a clear() of a queue that
\* is not stopped, its onMessageComplete or onMessageError is called, then
\* onQueueEmpty, and nothing is started.
C38_SettleStep ==
    (op.name = "clear" /\ ~stopped /\ op'.name = "settle") =>
        /\ \E cb \in ResultCbs :
              fired' = <<Ev(cb, op'.m, 0), Ev("onQueueEmpty", 0, 0)>>
        /\ (promise'[op'.m] = "resolved") =>
              fired'[1].cb = "onMessageComplete"
        /\ (promise'[op'.m] = "rejected") => fired'[1].cb = "onMessageError"
        /\ ~processing'
        /\ InFlight(Cur)' = {}

C38_ClearOnlyClears == [][C38_ClearStep /\ C38_SettleStep]_vars

\* Message 2 was cleared from the queue while message 1 was in flight, and
\* message 1 has then completed.
C38_Witness ==
    /\ op = Op("settle", 1, 0)
    /\ discarded = {2}
    /\ stoppedDuring = {}
    /\ fired = <<Ev("onMessageComplete", 1, 0), Ev("onQueueEmpty", 0, 0)>>

\* C36: whenever sendMessage resolves with a string, the last message of the
\* history is an assistant message with that string as its content.
C36_LastIsAnswer ==
    svcOp.ret.state = "resolved" =>
        /\ session # <<>>
        /\ session[Len(session)].role = "assistant"
        /\ session[Len(session)].content = svcOp.ret.value

\* C37: when the vendor call rejects, sendMessage rejects with the same
\* error and takes nothing back: the history is what it was while the call
\* was awaited, the user message of the turn and the assistant and tool
\* messages of the rounds before the failure, as chatWithTools collected them.
C37_Step ==
    (call.pc = "chat" /\ svcOp'.name = "chat"
        /\ svcOp'.ret.state = "rejected") =>
        /\ \E err \in {svcOp'.ret.value} :
              svcOp'.trace = <<[e |-> "reject", arg |-> err],
                               [e |-> "throw", arg |-> err]>>
        /\ session' = session
        /\ session' = call.messages
        /\ \E i \in DOMAIN session' : session'[i].role = "user"
        /\ call' = Idle

C37_RejectKeepsHistory == [][C37_Step]_vars

\* The vendor call of the second round rejected: the history holds the
\* first round.
C37_Witness ==
    /\ svcOp.name = "chat"
    /\ svcOp.ret = [state |-> "rejected", value |-> "AbortError"]
    /\ Len(session) >= 3
    /\ session[Len(session)].role = "tool"
    /\ session[Len(session) - 1].role = "assistant"

\* C34: at every vendor call of sendMessage the list passed to the client is
\* the history of the Session as it is at that moment (the system prompt,
\* which the Session puts in front of both, left aside).
C34_Step ==
    \A i \in DOMAIN svcOp'.trace :
        svcOp'.trace[i].e = "chat" => svcOp'.trace[i].arg = session'

C34_MessagesAreSession == [][C34_Step]_vars

\* C35: the turn that was in flight when clearHistory ran appends nothing to
\* the new session: the step it takes next adds no message to the history.
C35_Step ==
    (svcOp.name = "clearHistory" /\ call.pc # "idle"
        /\ svcOp'.name \in {"chat", "tools"}) =>
        \A i \in DOMAIN svcOp'.trace : svcOp'.trace[i].e # "append"

C35_NoStaleAppend == [][C35_Step]_vars

====
